---- MODULE Spec2Model ----
(***************************************************************************)
(* Model of the Hoster API back end:                                       *)
(*   - RateLimitMiddleware.dispatch   (src/middleware.py)                  *)
(*   - process_deployment / create_deployment (src/routers/deployments.py) *)
(*   - the application handlers that write the same store                  *)
(*     (src/routers/app.py)                                                *)
(***************************************************************************)
EXTENDS Integers, Sequences, FiniteSets, TLC

\* ------------------------------------------------------------------------
\* Bounds of the model
\* ------------------------------------------------------------------------
MaxQuota == 2
MaxWindow == 2
MaxTime == 4
MaxReqs == 4
MaxFaults == 2
MaxAppOps == 1
MaxTokens == 3
MaxAuthTime == 2

\* ------------------------------------------------------------------------
\* Program constants
\* ------------------------------------------------------------------------
RATE_LIMIT_ENABLED == TRUE
HealthPath == "/health"

Clients == {"10.0.0.1", "10.0.0.2"}
Users == {"u1"}
AppIds == {"app1", "app2"}
DepIds == {"dep1", "dep2"}
Paths == {HealthPath, "/api/v1/apps"}

\* the credential store: the provisioned administrator and the ids signup draws
AdminId == "u0"
UserIds == {AdminId, "u1"}
Usernames == {"root", "alice"}
Emails == {"root@x.io", "alice@x.io"}
Passwords == {"password1"}
KeyTexts == {<<"cdp_k1">>, <<"cdp_k2">>}
Slots == {1, 2}

\* the application limit and the ids and names create_app draws from
MAX_APPS_PER_USER == 10
AppSeq == << "app1", "app2", "app3", "app4", "app5", "app6",
             "app7", "app8", "app9", "app10", "app11", "app12" >>
ManyAppIds == {AppSeq[i] : i \in DOMAIN AppSeq}
NewNames == {"app1", "shop", "blog"}
DeployNames == {"shop", "blog"}

\* token lifetimes, in ticks of the model's clock
ACCESS_TOKEN_EXPIRE == 1
REFRESH_TOKEN_EXPIRE == 2

VARIABLES
    RATE_LIMIT_REQUESTS,  \* settings.RATE_LIMIT_REQUESTS (the quota)
    RATE_LIMIT_WINDOW,    \* settings.RATE_LIMIT_WINDOW (seconds)
    now,                  \* the value time.time() returns
    rate_limit_store,     \* RateLimitMiddleware.rate_limit_store
    reqs,                 \* the dispatch calls made so far, in order
    apps,                 \* db.apps: app id -> document or NoDoc
    deployments,          \* db.deployments: deployment id -> document or NoDoc
    task,                 \* per deployment id: create_deployment / process_deployment position
    deleting,             \* per app id: how far the delete_app calls for it have got
    faults,               \* store operations of process_deployment that have raised
    appOps,               \* start/stop/restart/update calls made
    users,                \* db.users: user id -> document, NoDoc or Gone
    tokens,               \* the session tokens login has issued
    issued,               \* key strings secrets.token_urlsafe has handed out
    last,                 \* the answer the step just taken sent, if it sent one
    pend                  \* per request slot: the handler in flight

ratevars == <<RATE_LIMIT_REQUESTS, RATE_LIMIT_WINDOW, now, rate_limit_store, reqs>>

depvars == <<apps, deployments, task, deleting, faults, appOps>>

authvars == <<users, tokens, issued, last, pend>>

vars == <<RATE_LIMIT_REQUESTS, RATE_LIMIT_WINDOW, now, rate_limit_store, reqs,
          apps, deployments, task, deleting, faults, appOps,
          users, tokens, issued, last, pend>>

\* ------------------------------------------------------------------------
\* Rate limiter
\* ------------------------------------------------------------------------

\* self.rate_limit_store[client_ip] after "if client_ip not in ...: ... = []"
StoredFor(store, c) == IF c \in DOMAIN store THEN store[c] ELSE <<>>

\* variant: the window is taken one second too short
InWindow_short(current_time, req_time, w) == current_time - req_time < w - 1

\* variant: an entry aged exactly the window is kept
InWindow_inclusive(current_time, req_time, w) == current_time - req_time <= w

\* the list comprehension that removes requests outside the time window
InWindow(current_time, req_time, w) == current_time - req_time < w

Prune(seq, current_time, w) ==
    SelectSeq(seq, LAMBDA req_time : InWindow(current_time, req_time, w))

\* variant: the comparison with the quota is strict
LimitReached_strict(seq, q) == Len(seq) > q

\* the rate limit check
LimitReached(seq, q) == Len(seq) >= q

\* store with key c bound to seq (key created when absent)
Put(store, c, seq) ==
    [k \in DOMAIN store \cup {c} |-> IF k = c THEN seq ELSE store[k]]

RateInit ==
    /\ RATE_LIMIT_REQUESTS \in 1..MaxQuota
    /\ RATE_LIMIT_WINDOW \in 1..MaxWindow
    /\ now = 0
    /\ rate_limit_store = << >>
    /\ reqs = << >>

\* dispatch, limiter disabled or health check: straight to call_next
DispatchBypass(c, path) ==
    /\ Len(reqs) < MaxReqs
    /\ (~RATE_LIMIT_ENABLED) \/ path = HealthPath
    /\ reqs' = Append(reqs, [client |-> c, path |-> path, time |-> now,
                             seen |-> 0, outcome |-> "bypass"])
    /\ UNCHANGED <<RATE_LIMIT_REQUESTS, RATE_LIMIT_WINDOW, now, rate_limit_store>>
    /\ UNCHANGED depvars
    /\ UNCHANGED authvars

\* variant: the timestamp is recorded before the quota is checked
DispatchReject_recorded(c, path) ==
    /\ Len(reqs) < MaxReqs
    /\ RATE_LIMIT_ENABLED /\ path # HealthPath
    /\ LET pruned == Prune(StoredFor(rate_limit_store, c), now, RATE_LIMIT_WINDOW)
       IN  /\ LimitReached(pruned, RATE_LIMIT_REQUESTS)
           /\ rate_limit_store' = Put(rate_limit_store, c, Append(pruned, now))
           /\ reqs' = Append(reqs, [client |-> c, path |-> path, time |-> now,
                                    seen |-> Len(pruned), outcome |-> "rejected"])
    /\ UNCHANGED <<RATE_LIMIT_REQUESTS, RATE_LIMIT_WINDOW, now>>
    /\ UNCHANGED depvars
    /\ UNCHANGED authvars

\* dispatch, pruned list at quota: HTTP 429 is raised
DispatchReject(c, path) ==
    /\ Len(reqs) < MaxReqs
    /\ RATE_LIMIT_ENABLED /\ path # HealthPath
    /\ LET pruned == Prune(StoredFor(rate_limit_store, c), now, RATE_LIMIT_WINDOW)
       IN  /\ LimitReached(pruned, RATE_LIMIT_REQUESTS)
           /\ rate_limit_store' = Put(rate_limit_store, c, pruned)
           /\ reqs' = Append(reqs, [client |-> c, path |-> path, time |-> now,
                                    seen |-> Len(pruned), outcome |-> "rejected"])
    /\ UNCHANGED <<RATE_LIMIT_REQUESTS, RATE_LIMIT_WINDOW, now>>
    /\ UNCHANGED depvars
    /\ UNCHANGED authvars

\* dispatch, pruned list under quota: timestamp appended, call_next awaited
DispatchAdmit(c, path) ==
    /\ Len(reqs) < MaxReqs
    /\ RATE_LIMIT_ENABLED /\ path # HealthPath
    /\ LET pruned == Prune(StoredFor(rate_limit_store, c), now, RATE_LIMIT_WINDOW)
       IN  /\ ~LimitReached(pruned, RATE_LIMIT_REQUESTS)
           /\ rate_limit_store' = Put(rate_limit_store, c, Append(pruned, now))
           /\ reqs' = Append(reqs, [client |-> c, path |-> path, time |-> now,
                                    seen |-> Len(pruned), outcome |-> "admitted"])
    /\ UNCHANGED <<RATE_LIMIT_REQUESTS, RATE_LIMIT_WINDOW, now>>
    /\ UNCHANGED depvars
    /\ UNCHANGED authvars

\* the clock moves on
Tick ==
    /\ now < MaxTime
    /\ now' = now + 1
    /\ UNCHANGED <<RATE_LIMIT_REQUESTS, RATE_LIMIT_WINDOW, rate_limit_store, reqs>>
    /\ UNCHANGED depvars
    /\ UNCHANGED authvars

RateNext ==
    \/ \E c \in Clients, path \in Paths : DispatchBypass(c, path)
    \/ \E c \in Clients, path \in Paths : DispatchReject(c, path)
    \/ \E c \in Clients, path \in Paths : DispatchAdmit(c, path)
    \/ Tick


\* ------------------------------------------------------------------------
\* Job store and deployment lifecycle
\* ------------------------------------------------------------------------
NoDoc == [absent |-> TRUE]
None == << >>
UtcNow == <<now>>
NoVal == "none"
NoUser == ""

\* a request slot with no handler in flight
Idle == [op |-> "none", pc |-> "none", user |-> NoUser, username |-> NoVal,
         email |-> NoVal, password |-> NoVal, set_active |-> NoVal, set_role |-> NoVal,
         arg |-> NoVal, status |-> NoVal, cred |-> << >>, decoded |-> FALSE,
         sub |-> NoUser, caller |-> NoUser]

\* no authenticated call made yet
NoCall == [op |-> "none", cred |-> << >>, code |-> 0, detail |-> "", user |-> NoUser,
           phase |-> "none"]

\* the record of a call and the outcome of its dependency
Call(op, text, res) ==
    [op |-> op, cred |-> text, code |-> res.code, detail |-> res.detail, user |-> res.user,
     phase |-> "auth"]

\* a request that waits in its closing find_one on the id in user
Reading(op, u) == [Idle EXCEPT !.op = op, !.pc = "read", !.user = u]

\* a step that sends no answer
Quiet == last' = NoCall

\* the record of the answer a handler ends with; text is the credential of
\* the request where the request slot keeps it
Response(op, text, code, detail, u) ==
    [op |-> op, cred |-> text, code |-> code, detail |-> detail, user |-> u,
     phase |-> "response"]

PENDING == "pending"
DEPLOYING == "deploying"
RUNNING == "running"
FAILED == "failed"
STOPPED == "stopped"
AppStatus == {RUNNING, STOPPED, FAILED, DEPLOYING, PENDING}

\* the logs list that process_deployment writes
PipelineLogs ==
    << "Pulling source code...",
       "Building application...",
       "Running tests...",
       "Deploying to server...",
       "Deployment completed successfully" >>

ErrorLine == "Error: store operation failed"

\* update_one({"_id": id}, {"$set": fields}): no effect when no document matches
SetFields(coll, id, fields) ==
    IF coll[id] = NoDoc
    THEN coll
    ELSE [coll EXCEPT ![id] =
            [f \in DOMAIN coll[id] |->
                IF f \in DOMAIN fields THEN fields[f] ELSE coll[id][f]]]

\* update_one with {"$set": fields, "$push": {"logs": line}}
SetFieldsAndPushLog(coll, id, fields, line) ==
    IF coll[id] = NoDoc
    THEN coll
    ELSE LET set == SetFields(coll, id, fields)
         IN  [set EXCEPT ![id].logs = Append(coll[id].logs, line)]

\* delete_many({"app_id": a})
DeleteByApp(coll, a) ==
    [id \in DOMAIN coll |->
        IF coll[id] # NoDoc /\ coll[id].app_id = a THEN NoDoc ELSE coll[id]]

\* variant: the completion timestamp is left out of the terminal update
TerminalFields_noStamp(stamp) == [status |-> RUNNING, completed_at |-> None]

\* the $set of the success branch's terminal update; stamp is the
\* datetime.utcnow() read when the update is issued
TerminalFields(stamp) == [status |-> RUNNING, completed_at |-> stamp]

\* variant: the except branch repeats the success branch's status
FailedFields_running(stamp) == [status |-> RUNNING, completed_at |-> stamp]

\* the $set of the except branch's update; stamp is the datetime.utcnow()
\* read when the update is issued
FailedFields(stamp) == [status |-> FAILED, completed_at |-> stamp]

\* a deployment id no create_deployment call has drawn
NoTask ==
    [pc |-> "unused", app_id |-> "", user_id |-> "", faulted |-> FALSE,
     scheduled |-> 0, started |-> 0, created_at |-> 0, response |-> "none",
     stamp |-> None]

DeployInit ==
    /\ apps = [a \in AppIds |-> NoDoc]
    /\ deployments = [d \in DepIds |-> NoDoc]
    /\ task = [d \in DepIds |-> NoTask]
    /\ deleting = [a \in ManyAppIds |-> "idle"]
    /\ faults = 0
    /\ appOps = 0

\* count_documents({"user_id": u}) on db.apps
CountApps(coll, u) ==
    Cardinality({a \in DOMAIN coll : coll[a] # NoDoc /\ coll[a].user_id = u})

\* find_one({"user_id": u, "name": name}) on db.apps finds a document; also
\* what the unique index on (user_id, name) refuses
NameTaken(coll, u, name) ==
    \E a \in DOMAIN coll :
        coll[a] # NoDoc /\ coll[a].user_id = u /\ coll[a].name = name

\* find_one({"_id": a, "user_id": u}) on db.apps finds a document
OwnedApp(coll, a, u) == coll[a] # NoDoc /\ coll[a].user_id = u

\* create_app: count_documents answered below the limit
CreateAppCount(s, u, name) ==
    /\ pend[s] = Idle
    /\ ~(CountApps(apps, u) >= MAX_APPS_PER_USER)
    /\ pend' = [pend EXCEPT ![s] =
          [Idle EXCEPT !.op = "create_app", !.pc = "find", !.user = u, !.arg = name]]
    /\ UNCHANGED <<users, tokens, issued, last>>
    /\ UNCHANGED ratevars
    /\ UNCHANGED depvars

\* create_app: find_one on (user_id, name); a found document ends the
\* request with 400
CreateAppFind(s) ==
    /\ pend[s].op = "create_app" /\ pend[s].pc = "find"
    /\ pend' = [pend EXCEPT ![s] =
          IF NameTaken(apps, pend[s].user, pend[s].arg)
          THEN Idle
          ELSE [pend[s] EXCEPT !.pc = "insert"]]
    /\ UNCHANGED <<users, tokens, issued, last>>
    /\ UNCHANGED ratevars
    /\ UNCHANGED depvars

\* create_app: insert_one of the application document under a fresh id (a
\* duplicate (user_id, name) is refused)
CreateAppInsert(s, a) ==
    /\ pend[s].op = "create_app" /\ pend[s].pc = "insert"
    /\ a \in DOMAIN apps /\ apps[a] = NoDoc /\ deleting[a] = "idle"
    /\ apps' = IF NameTaken(apps, pend[s].user, pend[s].arg)
               THEN apps
               ELSE [apps EXCEPT ![a] = [user_id |-> pend[s].user, status |-> PENDING,
                                         name |-> pend[s].arg]]
    /\ pend' = [pend EXCEPT ![s] = Idle]
    /\ UNCHANGED <<deployments, task, deleting, faults, appOps>>
    /\ UNCHANGED <<users, tokens, issued, last>>
    /\ UNCHANGED ratevars

\* datetime.utcnow() of the deployment dict, as the number of deployment
\* dicts built before this one
CreationStamp(t) ==
    Cardinality({e \in DOMAIN t : t[e].pc # "unused"})

\* create_deployment: find_one passed the ownership check, a fresh id is
\* drawn and the deployment dict is built
CreateDeploymentFind(d, a, u) ==
    /\ task[d].pc = "unused"
    /\ OwnedApp(apps, a, u)
    /\ task' = [task EXCEPT ![d] =
                [NoTask EXCEPT !.pc = "insert", !.app_id = a, !.user_id = u,
                               !.created_at = CreationStamp(task)]]
    /\ UNCHANGED <<apps, deployments, deleting, faults, appOps>>
    /\ UNCHANGED ratevars
    /\ UNCHANGED authvars

\* create_deployment: insert_one of the dict and background_tasks.add_task
CreateDeploymentInsert(d) ==
    /\ task[d].pc = "insert"
    /\ deployments' = [deployments EXCEPT ![d] =
            [app_id |-> task[d].app_id,
             user_id |-> task[d].user_id,
             status |-> PENDING,
             logs |-> <<"Deployment initiated">>,
             created_at |-> task[d].created_at,
             completed_at |-> None]]
    /\ task' = [task EXCEPT ![d].pc = "respond",
                             ![d].scheduled = task[d].scheduled + 1]
    /\ UNCHANGED <<apps, deleting, faults, appOps>>
    /\ UNCHANGED ratevars
    /\ UNCHANGED authvars

\* the keys of the dict create_deployment builds
DeploymentDictKeys ==
    {"_id", "app_id", "user_id", "status", "commit_sha", "docker_image",
     "logs", "created_at", "completed_at"}

\* the fields of DeploymentResponse that have no default
DeploymentResponseRequired ==
    {"id", "app_id", "user_id", "status", "commit_sha", "docker_image", "created_at"}

\* DeploymentResponse(**dict) validates: every required field is a key
DeploymentResponse(keys) == DeploymentResponseRequired \subseteq keys

\* create_deployment: DeploymentResponse(**deployment). When it validates the
\* handler returns the record and the framework starts the scheduled run;
\* when it raises, the request ends with an error and the scheduled run is
\* dropped with the response
CreateDeploymentReturn(d) ==
    /\ task[d].pc = "respond"
    /\ task' = IF DeploymentResponse(DeploymentDictKeys)
               THEN [task EXCEPT ![d].pc = "start", ![d].response = "record"]
               ELSE [task EXCEPT ![d].pc = "dropped", ![d].response = "error"]
    /\ UNCHANGED <<apps, deployments, deleting, faults, appOps>>
    /\ UNCHANGED ratevars
    /\ UNCHANGED authvars

\* process_deployment(d, app_id) called on its own for a record
\* create_deployment has persisted
ProcessDeploymentCall(d) ==
    /\ task[d].pc = "dropped"
    /\ task' = [task EXCEPT ![d].pc = "start"]
    /\ UNCHANGED <<apps, deployments, deleting, faults, appOps>>
    /\ UNCHANGED ratevars
    /\ UNCHANGED authvars

\* process_deployment: status := deploying
RunDeploying(d) ==
    /\ task[d].pc = "start"
    /\ deployments' = SetFields(deployments, d, [status |-> DEPLOYING])
    /\ task' = [task EXCEPT ![d].pc = "logs", ![d].started = task[d].started + 1]
    /\ UNCHANGED <<apps, deleting, faults, appOps>>
    /\ UNCHANGED ratevars
    /\ UNCHANGED authvars

\* process_deployment: logs := the pipeline's list; when this update
\* returns the terminal update is issued, with the clock read then
RunLogs(d) ==
    /\ task[d].pc = "logs"
    /\ deployments' = SetFields(deployments, d, [logs |-> PipelineLogs])
    /\ task' = [task EXCEPT ![d].pc = "terminal", ![d].stamp = UtcNow]
    /\ UNCHANGED <<apps, deleting, faults, appOps>>
    /\ UNCHANGED ratevars
    /\ UNCHANGED authvars

\* process_deployment: status := running, completed_at := the clock read
\* when the update was issued
RunTerminal(d) ==
    /\ task[d].pc = "terminal"
    /\ deployments' = SetFields(deployments, d, TerminalFields(task[d].stamp))
    /\ task' = [task EXCEPT ![d].pc = "app"]
    /\ UNCHANGED <<apps, deleting, faults, appOps>>
    /\ UNCHANGED ratevars
    /\ UNCHANGED authvars

\* process_deployment: application status := running; the try block ends
RunApp(d) ==
    /\ task[d].pc = "app"
    /\ apps' = SetFields(apps, task[d].app_id, [status |-> RUNNING])
    /\ task' = [task EXCEPT ![d].pc = "done"]
    /\ UNCHANGED <<deployments, deleting, faults, appOps>>
    /\ UNCHANGED ratevars
    /\ UNCHANGED authvars

\* a store operation of the try block raises: control moves to the except
\* block, which issues its update with the clock read then
RunFault(d) ==
    /\ task[d].pc \in {"start", "logs", "terminal", "app"}
    /\ faults < MaxFaults
    /\ faults' = faults + 1
    /\ task' = [task EXCEPT ![d].pc = "except", ![d].faulted = TRUE,
                             ![d].stamp = UtcNow,
                             ![d].started = IF task[d].pc = "start"
                                            THEN task[d].started + 1
                                            ELSE task[d].started]
    /\ UNCHANGED <<apps, deployments, deleting, appOps>>
    /\ UNCHANGED ratevars
    /\ UNCHANGED authvars

\* except block: status := failed, completed_at := the clock read when the
\* update was issued, error line pushed
ExceptDeployment(d) ==
    /\ task[d].pc = "except"
    /\ deployments' = SetFieldsAndPushLog(deployments, d, FailedFields(task[d].stamp),
                                          ErrorLine)
    /\ task' = [task EXCEPT ![d].pc = "except_app"]
    /\ UNCHANGED <<apps, deleting, faults, appOps>>
    /\ UNCHANGED ratevars
    /\ UNCHANGED authvars

\* except block: application status := failed; the run ends
ExceptApp(d) ==
    /\ task[d].pc = "except_app"
    /\ apps' = SetFields(apps, task[d].app_id, [status |-> FAILED])
    /\ task' = [task EXCEPT ![d].pc = "done"]
    /\ UNCHANGED <<deployments, deleting, faults, appOps>>
    /\ UNCHANGED ratevars
    /\ UNCHANGED authvars

\* a store operation of the except block raises: the exception leaves
\* process_deployment
ExceptFault(d) ==
    /\ task[d].pc \in {"except", "except_app"}
    /\ faults < MaxFaults
    /\ faults' = faults + 1
    /\ task' = [task EXCEPT ![d].pc = "raised"]
    /\ UNCHANGED <<apps, deployments, deleting, appOps>>
    /\ UNCHANGED ratevars
    /\ UNCHANGED authvars

\* delete_app: find_one passed the ownership check
DeleteAppFind(s, a, u) ==
    /\ pend[s] = Idle
    /\ OwnedApp(apps, a, u)
    /\ pend' = [pend EXCEPT ![s] =
          [Idle EXCEPT !.op = "delete_app", !.pc = "delete_one", !.user = u, !.arg = a]]
    /\ UNCHANGED <<users, tokens, issued, last>>
    /\ UNCHANGED ratevars
    /\ UNCHANGED depvars

\* delete_app: delete_one({"_id": app_id}) on db.apps
DeleteAppDoc(s) ==
    /\ pend[s].op = "delete_app" /\ pend[s].pc = "delete_one"
    /\ apps' = [apps EXCEPT ![pend[s].arg] = NoDoc]
    /\ deleting' = [deleting EXCEPT ![pend[s].arg] =
                      IF @ = "idle" THEN "deployments" ELSE @]
    /\ pend' = [pend EXCEPT ![s].pc = "deployments"]
    /\ UNCHANGED <<deployments, task, faults, appOps>>
    /\ UNCHANGED <<users, tokens, issued, last>>
    /\ UNCHANGED ratevars

\* delete_app: delete_many({"app_id": app_id}) on db.deployments; the request
\* ends
DeleteAppDeployments(s) ==
    /\ pend[s].op = "delete_app" /\ pend[s].pc = "deployments"
    /\ deployments' = DeleteByApp(deployments, pend[s].arg)
    /\ deleting' = [deleting EXCEPT ![pend[s].arg] = "done"]
    /\ pend' = [pend EXCEPT ![s] = Idle]
    /\ UNCHANGED <<apps, task, faults, appOps>>
    /\ UNCHANGED <<users, tokens, issued, last>>
    /\ UNCHANGED ratevars

\* start_app, stop_app, restart_app, update_app: find_one passed the
\* ownership check; st is the status the request will write (NoVal: none)
AppFind(s, op, a, u, st) ==
    /\ pend[s] = Idle
    /\ appOps < MaxAppOps
    /\ OwnedApp(apps, a, u)
    /\ appOps' = appOps + 1
    /\ pend' = [pend EXCEPT ![s] =
          [Idle EXCEPT !.op = op, !.pc = "update", !.user = u, !.arg = a,
                       !.status = st]]
    /\ UNCHANGED <<apps, deployments, task, deleting, faults>>
    /\ UNCHANGED <<users, tokens, issued, last>>
    /\ UNCHANGED ratevars

\* the $set of the request in slot s
StatusFields(p) ==
    IF p.status = NoVal THEN << >> ELSE [status |-> p.status]

\* update_one({"_id": app_id}, {"$set": ...}) on db.apps
AppUpdate(s, op, pc) ==
    /\ pend[s].op = op /\ pend[s].pc = "update"
    /\ apps' = SetFields(apps, pend[s].arg, StatusFields(pend[s]))
    /\ pend' = [pend EXCEPT ![s] = IF pc = "none" THEN Idle ELSE [@ EXCEPT !.pc = pc]]
    /\ UNCHANGED <<deployments, task, deleting, faults, appOps>>
    /\ UNCHANGED <<users, tokens, issued, last>>
    /\ UNCHANGED ratevars

StartAppFind(s, a, u) == AppFind(s, "start_app", a, u, RUNNING)

\* start_app: status := running; the request ends
StartApp(s) == AppUpdate(s, "start_app", "none")

StopAppFind(s, a, u) == AppFind(s, "stop_app", a, u, STOPPED)

\* stop_app: status := stopped; the request ends
StopApp(s) == AppUpdate(s, "stop_app", "none")

RestartAppFind(s, a, u) == AppFind(s, "restart_app", a, u, RUNNING)

\* restart_app: status := running; the request ends
RestartApp(s) == AppUpdate(s, "restart_app", "none")

UpdateAppFind(s, a, u, st) == AppFind(s, "update_app", a, u, st)

\* update_app: the fields of the request written
UpdateApp(s) == AppUpdate(s, "update_app", "read")

\* update_app: find_one({"_id": app_id}) and app['name'] on its result; on
\* no document the subscript raises TypeError and the request ends with 500
UpdateAppRead(s) ==
    /\ pend[s].op = "update_app" /\ pend[s].pc = "read"
    /\ last' = IF apps[pend[s].arg] = NoDoc
               THEN Response("update_app", << >>, 500, "TypeError", pend[s].user)
               ELSE Response("update_app", << >>, 200, "updated", pend[s].user)
    /\ pend' = [pend EXCEPT ![s] = Idle]
    /\ UNCHANGED <<users, tokens, issued>>
    /\ UNCHANGED ratevars
    /\ UNCHANGED depvars

\* create_app, create_deployment, the runs and delete_app; create_app
\* requests come one at a time, delete_app requests side by side
DeployNext ==
    \/ \E u \in Users, name \in DeployNames : CreateAppCount(1, u, name)
    \/ CreateAppFind(1)
    \/ \E a \in AppIds : CreateAppInsert(1, a)
    \/ \E d \in DepIds, a \in AppIds, u \in Users : CreateDeploymentFind(d, a, u)
    \/ \E d \in DepIds : CreateDeploymentInsert(d)
    \/ \E d \in DepIds : CreateDeploymentReturn(d)
    \/ \E d \in DepIds : ProcessDeploymentCall(d)
    \/ \E d \in DepIds : RunDeploying(d)
    \/ \E d \in DepIds : RunLogs(d)
    \/ \E d \in DepIds : RunTerminal(d)
    \/ \E d \in DepIds : RunApp(d)
    \/ \E d \in DepIds : RunFault(d)
    \/ \E d \in DepIds : ExceptDeployment(d)
    \/ \E d \in DepIds : ExceptApp(d)
    \/ \E d \in DepIds : ExceptFault(d)
    \/ \E s \in Slots, a \in AppIds, u \in Users : DeleteAppFind(s, a, u)
    \/ \E s \in Slots : DeleteAppDoc(s)
    \/ \E s \in Slots : DeleteAppDeployments(s)

\* the application handlers: create_app, delete_app and the status requests
\* side by side
AppNext ==
    \/ \E u \in Users, name \in DeployNames : CreateAppCount(1, u, name)
    \/ CreateAppFind(1)
    \/ \E a \in AppIds : CreateAppInsert(1, a)
    \/ \E s \in Slots, a \in AppIds, u \in Users : DeleteAppFind(s, a, u)
    \/ \E s \in Slots : DeleteAppDoc(s)
    \/ \E s \in Slots : DeleteAppDeployments(s)
    \/ \E s \in Slots, a \in AppIds, u \in Users : StartAppFind(s, a, u)
    \/ \E s \in Slots : StartApp(s)
    \/ \E s \in Slots, a \in AppIds, u \in Users : StopAppFind(s, a, u)
    \/ \E s \in Slots : StopApp(s)
    \/ \E s \in Slots, a \in AppIds, u \in Users : RestartAppFind(s, a, u)
    \/ \E s \in Slots : RestartApp(s)
    \/ \E s \in Slots, a \in AppIds, u \in Users, st \in AppStatus \cup {NoVal} :
          UpdateAppFind(s, a, u, st)
    \/ \E s \in Slots : UpdateApp(s)
    \/ \E s \in Slots : UpdateAppRead(s)

\* ------------------------------------------------------------------------
\* Credential store and authentication
\* ------------------------------------------------------------------------
SECRET_KEY == "server-secret"
OtherKey == "other-secret"
USER == "user"
ADMIN == "admin"

Present(us, u) == us[u] # NoDoc

\* get_password_hash / verify_password (bcrypt; the salt is left out)
get_password_hash(password) == <<"bcrypt", password>>

verify_password(plain_password, hashed_password) ==
    hashed_password = get_password_hash(plain_password)

\* create_token: header, subject, expiry and signature of the token
create_token(sub, expires_delta, t, key) == <<"jwt", sub, t + expires_delta, key>>

\* variant: the expiry of the token is not verified
JwtDecode_noExpiry(text, t, key) ==
    IF Len(text) = 4 /\ text[1] = "jwt" /\ text[4] = key
    THEN [ok |-> TRUE, sub |-> text[2]]
    ELSE [ok |-> FALSE, sub |-> NoUser]

\* jwt.decode: JWTError unless the text has a token's segments, carries this
\* server's signature and has not expired
JwtDecode(text, t, key) ==
    IF Len(text) = 4 /\ text[1] = "jwt" /\ text[4] = key /\ ~(text[3] < t)
    THEN [ok |-> TRUE, sub |-> text[2]]
    ELSE [ok |-> FALSE, sub |-> NoUser]

\* the users whose api_keys list holds an entry with this key
KeyOwners(us, text) ==
    {u \in DOMAIN us :
        Present(us, u) /\ \E i \in DOMAIN us[u].api_keys : us[u].api_keys[i].key = text}

\* variant: the lookup matches any user that has an API key
FindByApiKey_anyKey(us, text) ==
    LET S == {u \in DOMAIN us : Present(us, u) /\ us[u].api_keys # << >>}
    IN  IF S = {} THEN NoUser ELSE CHOOSE u \in S : TRUE

\* db.users.find_one({"api_keys.key": token})
FindByApiKey(us, text) ==
    LET S == KeyOwners(us, text)
    IN  IF S = {} THEN NoUser ELSE CHOOSE u \in S : TRUE

Unauthenticated == [code |-> 401, detail |-> "credentials", user |-> NoUser]
AccountDisabled == [code |-> 403, detail |-> "disabled", user |-> NoUser]
Forbidden == [code |-> 403, detail |-> "admin_required", user |-> NoUser]
Resolved(u) == [code |-> 200, detail |-> "ok", user |-> u]

\* variant: the active flag is not looked at
ActiveCheck_skipped(us, u) == Resolved(u)

\* the is_active check at the end of get_current_user
ActiveCheck(us, u) ==
    IF ~us[u].is_active THEN AccountDisabled ELSE Resolved(u)

\* get_current_user after a successful jwt.decode
TokenPath(us, sub, text) ==
    IF sub = NoUser
    THEN Unauthenticated
    ELSE IF ~(sub \in DOMAIN us /\ Present(us, sub))
         THEN Unauthenticated
         ELSE ActiveCheck(us, sub)

\* variant: no API key lookup after JWTError
KeyPath_none(us, text) == Unauthenticated

\* get_current_user after JWTError
KeyPath(us, text) ==
    LET u == FindByApiKey(us, text)
    IN  IF u = NoUser THEN Unauthenticated ELSE ActiveCheck(us, u)

\* get_current_user from its awaited find_one on: the lookup the outcome of
\* jwt.decode selects, on the store as it is then
Lookup(payload, text, us) ==
    IF payload.ok THEN TokenPath(us, payload.sub, text) ELSE KeyPath(us, text)

\* get_current_user with no step of another request between jwt.decode and
\* the find_one
get_current_user(text, us, t) == Lookup(JwtDecode(text, t, SECRET_KEY), text, us)

\* the role check of get_admin_user
RoleCheck(us, res) ==
    IF us[res.user].role # ADMIN THEN Forbidden ELSE res

\* get_admin_user on the outcome of its get_current_user dependency
AdminCheck(us, res) == IF res.code # 200 THEN res ELSE RoleCheck(us, res)

get_admin_user(text, us, t) == AdminCheck(us, get_current_user(text, us, t))

\* variant: no unique index on email and username
IndexAllows_noIndex(us, u, username, email) == TRUE

\* the unique indexes on email and username: may document u carry these values
IndexAllows(us, u, username, email) ==
    \A v \in DOMAIN us :
        (v # u /\ Present(us, v)) =>
            (us[v].username # username /\ us[v].email # email)

\* update_one({"_id": u}, {"$set": ...}) on db.users
SetUserFields(us, u, fields) ==
    IF ~Present(us, u)
    THEN us
    ELSE [us EXCEPT ![u] =
            [f \in DOMAIN us[u] |->
                IF f \in DOMAIN fields THEN fields[f] ELSE us[u][f]]]

\* delete_many({"user_id": u})
DeleteByUser(coll, u) ==
    [id \in DOMAIN coll |->
        IF coll[id] # NoDoc /\ coll[id].user_id = u THEN NoDoc ELSE coll[id]]

\* the credential texts a caller can present
Forged == {<<"jwt", u, MaxAuthTime + REFRESH_TOKEN_EXPIRE, OtherKey>> : u \in UserIds}

\* the credentials the server has given out
Issued == tokens \cup issued.keys

Presentable == Issued \cup Forged \cup {<<"garbage">>}

\* the store as provisioned: one administrator, created outside the API
AuthInit ==
    /\ users = [u \in UserIds |->
                 IF u = AdminId
                 THEN [username |-> "root", email |-> "root@x.io",
                       password_hash |-> get_password_hash("password1"),
                       role |-> ADMIN, is_active |-> TRUE, api_keys |-> << >>]
                 ELSE NoDoc]
    /\ tokens = {}
    /\ issued = [ids |-> {AdminId}, keys |-> {}]
    /\ last = NoCall
    /\ pend = [s \in Slots |-> Idle]


FreeIds == UserIds \ issued.ids

\* the operations behind Depends(get_current_user) / Depends(get_admin_user)
UserOps == {"me", "create_api_key", "delete_api_key", "update_profile", "delete_account"}
AdminOps == {"admin_list", "admin_stats", "admin_update"}

\* a protected request arrives with its credential and body: the dependency
\* runs jwt.decode on the clock of that moment and goes into its awaited
\* find_one
Request(s, op, text, body) ==
    /\ pend[s] = Idle
    /\ text \in Presentable
    /\ LET payload == JwtDecode(text, now, SECRET_KEY)
       IN  pend' = [pend EXCEPT ![s] =
              [body EXCEPT !.op = op, !.pc = "auth", !.cred = text,
                           !.decoded = payload.ok, !.sub = payload.sub]]
    /\ Quiet
    /\ UNCHANGED <<users, tokens, issued>>
    /\ UNCHANGED ratevars
    /\ UNCHANGED depvars

\* the dependency request p declares, from its find_one on
Dependency(p, us) ==
    LET res == Lookup([ok |-> p.decoded, sub |-> p.sub], p.cred, us)
    IN  IF p.op \in AdminOps THEN AdminCheck(us, res) ELSE res

\* the store call update_profile makes next: the check of a field the
\* request carries, or else the update
ProfileStep(username, email) ==
    IF username # NoVal THEN "username"
    ELSE IF email # NoVal THEN "email"
    ELSE "update"

\* the handler body of request p entered with the user u the dependency
\* returned, waiting in its first store call
Admitted(p, u) ==
    CASE p.op = "create_api_key" ->
            [Idle EXCEPT !.op = p.op, !.pc = "push", !.user = u]
      [] p.op = "delete_api_key" ->
            [Idle EXCEPT !.op = p.op, !.pc = "pull", !.user = u, !.arg = p.arg,
                         !.cred = p.cred]
      [] p.op = "update_profile" ->
            [Idle EXCEPT !.op = p.op, !.pc = ProfileStep(p.username, p.email),
                         !.user = u, !.username = p.username, !.email = p.email]
      [] p.op = "admin_update" ->
            [Idle EXCEPT !.op = p.op, !.pc = "find", !.user = p.user, !.caller = u,
                         !.set_active = p.set_active, !.set_role = p.set_role]
      [] p.op = "delete_account" ->
            [Idle EXCEPT !.op = p.op, !.pc = "apps", !.user = u]
      [] OTHER -> Idle

\* the find_one of the dependency answers: the checks on the document run,
\* and the request ends with their refusal or enters its handler body
Authenticate(s) ==
    /\ pend[s].pc = "auth"
    /\ LET res == Dependency(pend[s], users)
       IN  /\ last' = Call(pend[s].op, pend[s].cred, res)
           /\ pend' = [pend EXCEPT ![s] =
                  IF res.code # 200 THEN Idle ELSE Admitted(pend[s], res.user)]
    /\ UNCHANGED <<users, tokens, issued>>
    /\ UNCHANGED ratevars
    /\ UNCHANGED depvars

\* get_current_user_info, list_all_users, get_platform_stats: reads only
CallBegin(s, op, text) ==
    /\ op \in {"me", "admin_list", "admin_stats"}
    /\ Request(s, op, text, Idle)

\* signup: no user with this email or username found
SignupFind(s, username, email, password) ==
    /\ pend[s] = Idle
    /\ FreeIds # {}
    /\ ~\E v \in UserIds :
          Present(users, v) /\ (users[v].email = email \/ users[v].username = username)
    /\ pend' = [pend EXCEPT ![s] =
            [Idle EXCEPT !.op = "signup", !.pc = "insert", !.username = username,
                         !.email = email, !.password = password]]
    /\ Quiet
    /\ UNCHANGED <<users, tokens, issued>>
    /\ UNCHANGED ratevars
    /\ UNCHANGED depvars

\* signup: insert_one of the new user document (a duplicate key is refused)
SignupInsert(s, u) ==
    /\ pend[s].op = "signup"
    /\ u \in FreeIds
    /\ issued' = [issued EXCEPT !.ids = @ \cup {u}]
    /\ users' =
          IF IndexAllows(users, u, pend[s].username, pend[s].email)
          THEN [users EXCEPT ![u] =
                  [username |-> pend[s].username, email |-> pend[s].email,
                   password_hash |-> get_password_hash(pend[s].password),
                   role |-> USER, is_active |-> TRUE, api_keys |-> << >>]]
          ELSE users
    /\ pend' = [pend EXCEPT ![s] = Idle]
    /\ Quiet
    /\ UNCHANGED tokens
    /\ UNCHANGED ratevars
    /\ UNCHANGED depvars

\* login: access and refresh token issued
Login(u, password) ==
    /\ Present(users, u)
    /\ verify_password(password, users[u].password_hash)
    /\ users[u].is_active
    /\ Cardinality(tokens) < MaxTokens
    /\ tokens' = tokens \cup
          { create_token(u, ACCESS_TOKEN_EXPIRE, now, SECRET_KEY),
            create_token(u, REFRESH_TOKEN_EXPIRE, now, SECRET_KEY) }
    /\ Quiet
    /\ UNCHANGED <<users, issued, pend>>
    /\ UNCHANGED ratevars
    /\ UNCHANGED depvars

\* create_api_key_endpoint: the request arrives
CreateApiKeyBegin(s, text) ==
    Request(s, "create_api_key", text, Idle)

\* create_api_key_endpoint: update_one with $push of a fresh key on the
\* caller's document (no effect when the document is gone); the key is
\* returned to the caller either way
CreateApiKeyPush(s, k) ==
    /\ pend[s].op = "create_api_key" /\ pend[s].pc = "push"
    /\ k \in KeyTexts \ issued.keys
    /\ LET u == pend[s].user
       IN  users' = IF Present(users, u)
                    THEN [users EXCEPT ![u].api_keys =
                            Append(@, [id |-> k[1], key |-> k])]
                    ELSE users
    /\ issued' = [issued EXCEPT !.keys = @ \cup {k}]
    /\ pend' = [pend EXCEPT ![s] = Idle]
    /\ Quiet
    /\ UNCHANGED tokens
    /\ UNCHANGED ratevars
    /\ UNCHANGED depvars

\* the ids a caller can name in delete_api_key
KeyIds == {k[1] : k \in KeyTexts}

\* variant: the $pull matches no entry
PullKey_kept(keys, key_id) == keys

\* {"$pull": {"api_keys": {"id": key_id}}}
PullKey(keys, key_id) == SelectSeq(keys, LAMBDA e : e.id # key_id)

\* the 404 of delete_api_key
KeyNotFound(text, u) == Response("delete_api_key", text, 404, "key_not_found", u)

\* delete_api_key: the request arrives
KeyDeleteBegin(s, text, key_id) ==
    Request(s, "delete_api_key", text, [Idle EXCEPT !.arg = key_id])

\* delete_api_key: update_one with $pull on the caller's document; 404 when
\* nothing was modified
KeyDeletePull(s) ==
    /\ pend[s].op = "delete_api_key" /\ pend[s].pc = "pull"
    /\ LET u == pend[s].user
           modified == Present(users, u)
                         /\ PullKey(users[u].api_keys, pend[s].arg) # users[u].api_keys
       IN  /\ users' = IF modified
                       THEN [users EXCEPT ![u].api_keys = PullKey(@, pend[s].arg)]
                       ELSE users
           /\ last' = IF modified
                      THEN Response("delete_api_key", pend[s].cred, 200, "deleted", u)
                      ELSE KeyNotFound(pend[s].cred, u)
    /\ pend' = [pend EXCEPT ![s] = Idle]
    /\ UNCHANGED <<tokens, issued>>
    /\ UNCHANGED ratevars
    /\ UNCHANGED depvars

\* is a value taken by a user other than u
TakenByOther(us, u, field, value) ==
    \E v \in DOMAIN us : v # u /\ Present(us, v) /\ us[v][field] = value

\* update_profile: the request arrives
ProfileBegin(s, text, username, email) ==
    Request(s, "update_profile", text,
            [Idle EXCEPT !.username = username, !.email = email])

\* update_profile: find_one on the username; a holder other than the caller
\* ends the request with 400
ProfileUsername(s) ==
    /\ pend[s].op = "update_profile" /\ pend[s].pc = "username"
    /\ pend' = [pend EXCEPT ![s] =
          IF TakenByOther(users, pend[s].user, "username", pend[s].username)
          THEN Idle
          ELSE [pend[s] EXCEPT !.pc = ProfileStep(NoVal, pend[s].email)]]
    /\ Quiet
    /\ UNCHANGED <<users, tokens, issued>>
    /\ UNCHANGED ratevars
    /\ UNCHANGED depvars

\* update_profile: find_one on the email; a holder other than the caller
\* ends the request with 400
ProfileEmail(s) ==
    /\ pend[s].op = "update_profile" /\ pend[s].pc = "email"
    /\ pend' = [pend EXCEPT ![s] =
          IF TakenByOther(users, pend[s].user, "email", pend[s].email)
          THEN Idle
          ELSE [pend[s] EXCEPT !.pc = "update"]]
    /\ Quiet
    /\ UNCHANGED <<users, tokens, issued>>
    /\ UNCHANGED ratevars
    /\ UNCHANGED depvars

\* the $set of update_profile
ProfileFields(p) ==
    [f \in ({"username"} \cap (IF p.username # NoVal THEN {"username"} ELSE {}))
           \cup ({"email"} \cap (IF p.email # NoVal THEN {"email"} ELSE {}))
       |-> p[f]]

\* the update of update_profile runs into the unique index
ProfileRefused(s) ==
    LET u == pend[s].user
        after == SetUserFields(users, u, ProfileFields(pend[s]))
    IN  Present(users, u) /\ ~IndexAllows(users, u, after[u].username, after[u].email)

\* update_profile: update_one; a duplicate key is refused and ends the
\* request
ProfileUpdate(s) ==
    /\ pend[s].op = "update_profile" /\ pend[s].pc = "update"
    /\ users' = IF ProfileRefused(s)
                THEN users
                ELSE SetUserFields(users, pend[s].user, ProfileFields(pend[s]))
    /\ pend' = [pend EXCEPT ![s] =
                  IF ProfileRefused(s)
                  THEN Idle
                  ELSE Reading("update_profile", pend[s].user)]
    /\ Quiet
    /\ UNCHANGED <<tokens, issued>>
    /\ UNCHANGED ratevars
    /\ UNCHANGED depvars

\* update_profile: find_one on the caller's id and user["username"] on its
\* result; on no document the subscript raises and the request ends with 500
ProfileRead(s) ==
    /\ pend[s].op = "update_profile" /\ pend[s].pc = "read"
    /\ last' = IF Present(users, pend[s].user)
               THEN Response("update_profile", << >>, 200, "updated", pend[s].user)
               ELSE Response("update_profile", << >>, 500, "TypeError", pend[s].user)
    /\ pend' = [pend EXCEPT ![s] = Idle]
    /\ UNCHANGED <<users, tokens, issued>>
    /\ UNCHANGED ratevars
    /\ UNCHANGED depvars

\* the $set of update_user_admin
AdminFields(p) ==
    [f \in (IF p.set_active # NoVal THEN {"is_active"} ELSE {})
           \cup (IF p.set_role # NoVal THEN {"role"} ELSE {})
       |-> IF f = "is_active" THEN p.set_active = "true" ELSE p.set_role]

\* update_user_admin: the request arrives
AdminUpdateBegin(s, text, target, active, role) ==
    Request(s, "admin_update", text,
            [Idle EXCEPT !.user = target, !.set_active = active, !.set_role = role])

\* update_user_admin: find_one on the target; no document ends the request
\* with 404; update_one is skipped when the request sets no field
AdminUpdateFind(s) ==
    /\ pend[s].op = "admin_update" /\ pend[s].pc = "find"
    /\ pend' = [pend EXCEPT ![s] =
          IF ~Present(users, pend[s].user)
          THEN Idle
          ELSE IF DOMAIN AdminFields(pend[s]) = {}
               THEN Reading("admin_update", pend[s].user)
               ELSE [@ EXCEPT !.pc = "update"]]
    /\ Quiet
    /\ UNCHANGED <<users, tokens, issued>>
    /\ UNCHANGED ratevars
    /\ UNCHANGED depvars

\* update_user_admin: update_one of the target
AdminUpdateApply(s) ==
    /\ pend[s].op = "admin_update" /\ pend[s].pc = "update"
    /\ users' = SetUserFields(users, pend[s].user, AdminFields(pend[s]))
    /\ pend' = [pend EXCEPT ![s] = Reading("admin_update", pend[s].user)]
    /\ Quiet
    /\ UNCHANGED <<tokens, issued>>
    /\ UNCHANGED ratevars
    /\ UNCHANGED depvars

\* update_user_admin: find_one on the target and user["username"] on its
\* result; on no document the subscript raises and the request ends with 500
AdminUpdateRead(s) ==
    /\ pend[s].op = "admin_update" /\ pend[s].pc = "read"
    /\ last' = IF Present(users, pend[s].user)
               THEN Response("admin_update", << >>, 200, "updated", pend[s].user)
               ELSE Response("admin_update", << >>, 500, "TypeError", pend[s].user)
    /\ pend' = [pend EXCEPT ![s] = Idle]
    /\ UNCHANGED <<users, tokens, issued>>
    /\ UNCHANGED ratevars
    /\ UNCHANGED depvars

\* delete_account: the request arrives
AccountBegin(s, text) ==
    Request(s, "delete_account", text, Idle)

\* delete_account: the user's applications deleted
AccountApps(s) ==
    /\ pend[s].op = "delete_account" /\ pend[s].pc = "apps"
    /\ apps' = DeleteByUser(apps, pend[s].user)
    /\ pend' = [pend EXCEPT ![s].pc = "deployments"]
    /\ UNCHANGED <<deployments, task, deleting, faults, appOps>>
    /\ Quiet
    /\ UNCHANGED <<users, tokens, issued>>
    /\ UNCHANGED ratevars

\* delete_account: the user's deployments deleted
AccountDeployments(s) ==
    /\ pend[s].op = "delete_account" /\ pend[s].pc = "deployments"
    /\ deployments' = DeleteByUser(deployments, pend[s].user)
    /\ pend' = [pend EXCEPT ![s].pc = "user"]
    /\ UNCHANGED <<apps, task, deleting, faults, appOps>>
    /\ Quiet
    /\ UNCHANGED <<users, tokens, issued>>
    /\ UNCHANGED ratevars

\* delete_account: the user document deleted
AccountUser(s) ==
    /\ pend[s].op = "delete_account" /\ pend[s].pc = "user"
    /\ users' = [users EXCEPT ![pend[s].user] = NoDoc]
    /\ pend' = [pend EXCEPT ![s] = Idle]
    /\ Quiet
    /\ UNCHANGED <<tokens, issued>>
    /\ UNCHANGED ratevars
    /\ UNCHANGED depvars

\* the clock of the credential store moves on
AuthTick ==
    /\ now < MaxAuthTime
    /\ now' = now + 1
    /\ UNCHANGED <<RATE_LIMIT_REQUESTS, RATE_LIMIT_WINDOW, rate_limit_store, reqs>>
    /\ UNCHANGED depvars
    /\ Quiet
    /\ UNCHANGED <<users, tokens, issued, pend>>

\* the values of the optional fields of AdminUserUpdate
OptActive == {NoVal, "true", "false"}
OptRole == {NoVal, USER, ADMIN}

\* the handlers that change what get_current_user reads, one request at a
\* time; every credential is tried on get_current_user_info, the writing
\* handlers are called with credentials the server has given out
AuthNext ==
    \/ \E text \in Presentable : CallBegin(1, "me", text)
    \/ Authenticate(1)
    \/ \E n \in Usernames, e \in Emails, p \in Passwords : SignupFind(1, n, e, p)
    \/ \E u \in UserIds : SignupInsert(1, u)
    \/ \E u \in UserIds, p \in Passwords : Login(u, p)
    \/ \E text \in Issued : CreateApiKeyBegin(1, text)
    \/ \E k \in KeyTexts : CreateApiKeyPush(1, k)
    \/ \E text \in Issued, target \in UserIds, a \in {"true", "false"} :
          AdminUpdateBegin(1, text, target, a, NoVal)
    \/ AdminUpdateFind(1)
    \/ AdminUpdateApply(1)
    \/ AdminUpdateRead(1)
    \/ \E text \in Issued : AccountBegin(1, text)
    \/ AccountApps(1)
    \/ AccountDeployments(1)
    \/ AccountUser(1)
    \/ AuthTick

\* the administrator-only handlers, with update_user_admin requests in
\* flight side by side; every credential is tried on the reading handlers
AdminNext ==
    \/ \E op \in {"admin_list", "admin_stats"}, text \in Presentable :
          CallBegin(1, op, text)
    \/ \E s \in Slots : Authenticate(s)
    \/ \E n \in Usernames, e \in Emails, p \in Passwords : SignupFind(1, n, e, p)
    \/ \E u \in UserIds : SignupInsert(1, u)
    \/ \E u \in UserIds, p \in Passwords : Login(u, p)
    \/ \E s \in Slots, text \in Issued, target \in UserIds,
          a \in OptActive, r \in OptRole :
          AdminUpdateBegin(s, text, target, a, r)
    \/ \E s \in Slots : AdminUpdateFind(s)
    \/ \E s \in Slots : AdminUpdateApply(s)
    \/ \E s \in Slots : AdminUpdateRead(s)

\* the handlers that write usernames and emails, with requests in flight
\* side by side
UniqueNext ==
    \/ \E s \in Slots, n \in Usernames, e \in Emails, p \in Passwords :
          SignupFind(s, n, e, p)
    \/ \E s \in Slots, u \in UserIds : SignupInsert(s, u)
    \/ \E u \in UserIds, p \in Passwords : Login(u, p)
    \/ \E s \in Slots, text \in Presentable,
          n \in Usernames \cup {NoVal}, e \in Emails \cup {NoVal} :
          ProfileBegin(s, text, n, e)
    \/ \E s \in Slots : Authenticate(s)
    \/ \E s \in Slots : ProfileUsername(s)
    \/ \E s \in Slots : ProfileEmail(s)
    \/ \E s \in Slots : ProfileUpdate(s)
    \/ \E s \in Slots : ProfileRead(s)

\* create_app requests of one user side by side
LimitNext ==
    \/ \E s \in Slots, u \in Users, name \in NewNames : CreateAppCount(s, u, name)
    \/ \E s \in Slots : CreateAppFind(s)
    \/ \E s \in Slots, a \in ManyAppIds : CreateAppInsert(s, a)

\* the handlers that add and remove API keys, with deletions in flight side
\* by side
KeyNext ==
    \/ \E s \in Slots, text \in Presentable : CallBegin(s, "me", text)
    \/ \E s \in Slots : Authenticate(s)
    \/ \E n \in Usernames, e \in Emails, p \in Passwords : SignupFind(1, n, e, p)
    \/ \E u \in UserIds : SignupInsert(1, u)
    \/ \E u \in UserIds, p \in Passwords : Login(u, p)
    \/ \E s \in Slots, text \in Presentable : CreateApiKeyBegin(s, text)
    \/ \E s \in Slots, k \in KeyTexts : CreateApiKeyPush(s, k)
    \/ \E s \in Slots, text \in Presentable, key_id \in KeyIds :
          KeyDeleteBegin(s, text, key_id)
    \/ \E s \in Slots : KeyDeletePull(s)

Init == RateInit /\ DeployInit /\ AuthInit

Next == RateNext \/ DeployNext \/ AppNext \/ AuthNext \/ AdminNext \/ UniqueNext
          \/ KeyNext \/ LimitNext

Spec == Init /\ [][Next]_vars

\* the rate limiter alone, with one fixed configuration of the job store
RateSpec == Init /\ [][RateNext]_vars

\* the job store and the lifecycle runs alone
DeployInitOnly ==
    /\ RATE_LIMIT_REQUESTS = 1
    /\ RATE_LIMIT_WINDOW = 1
    /\ now = 0
    /\ rate_limit_store = << >>
    /\ reqs = << >>
    /\ DeployInit
    /\ AuthInit

DeploySpec == DeployInitOnly /\ [][DeployNext]_vars

\* the application handlers alone
AppSpec == DeployInitOnly /\ [][AppNext]_vars

\* the credential store and the authenticated handlers alone
AuthSpec == DeployInitOnly /\ [][AuthNext]_vars

AdminSpec == DeployInitOnly /\ [][AdminNext]_vars

UniqueSpec == DeployInitOnly /\ [][UniqueNext]_vars

KeySpec == DeployInitOnly /\ [][KeyNext]_vars

\* a user who owns some applications already, created one after the other
\* and named after their ids
LimitInit ==
    /\ RATE_LIMIT_REQUESTS = 1
    /\ RATE_LIMIT_WINDOW = 1
    /\ now = 0
    /\ rate_limit_store = << >>
    /\ reqs = << >>
    /\ \E k \in 0..(MAX_APPS_PER_USER - 1), u \in Users :
          apps = [a \in ManyAppIds |->
                    IF \E i \in 1..k : AppSeq[i] = a
                    THEN [user_id |-> u, status |-> PENDING, name |-> a]
                    ELSE NoDoc]
    /\ deployments = [d \in DepIds |-> NoDoc]
    /\ task = [d \in DepIds |-> NoTask]
    /\ deleting = [a \in ManyAppIds |-> "idle"]
    /\ faults = 0
    /\ appOps = 0
    /\ AuthInit

LimitSpec == LimitInit /\ [][LimitNext]_vars

\* ------------------------------------------------------------------------
\* Properties of the rate limiter
\* ------------------------------------------------------------------------
Limited(r) == r.outcome # "bypass"

\* the limited dispatch calls of one client, as indices of reqs
ChecksOf(c) == {i \in DOMAIN reqs : reqs[i].client = c /\ Limited(reqs[i])}

\* i and j are successive admission checks of the same client
Successive(i, j) ==
    /\ i < j
    /\ reqs[i].client = reqs[j].client
    /\ Limited(reqs[i]) /\ Limited(reqs[j])
    /\ ~\E k \in (i+1)..(j-1) : k \in ChecksOf(reqs[i].client)

\* two checks race for the last slot: the first found exactly one slot free,
\* and the second runs at the same instant (or, with a quota of one, while
\* the first one's timestamp is still inside the window)
AtBoundary(i, j) ==
    /\ Successive(i, j)
    /\ reqs[i].seen = RATE_LIMIT_REQUESTS - 1
    /\ \/ reqs[j].time = reqs[i].time
       \/ RATE_LIMIT_REQUESTS = 1 /\ reqs[j].time - reqs[i].time < RATE_LIMIT_WINDOW

\* C1: of two admission checks of one client that compete for the single
\* remaining slot of the window, the first is admitted and the other one is
\* rejected; they are never both admitted.
C1_OneAdmittedAtBoundary ==
    \A i, j \in DOMAIN reqs :
        AtBoundary(i, j) =>
            reqs[i].outcome = "admitted" /\ reqs[j].outcome = "rejected"

C1_Witness ==
    \E i, j \in DOMAIN reqs :
        /\ AtBoundary(i, j)
        /\ reqs[j].time = reqs[i].time
        /\ reqs[i].outcome = "admitted" /\ reqs[j].outcome = "rejected"

\* C2: no client ever has more timestamps stored than the quota.
C2_LengthAtMostQuota ==
    \A c \in DOMAIN rate_limit_store :
        Len(rate_limit_store[c]) <= RATE_LIMIT_REQUESTS

C2_Witness ==
    \E c \in DOMAIN rate_limit_store :
        /\ Len(rate_limit_store[c]) = RATE_LIMIT_REQUESTS
        /\ \E i, j \in ChecksOf(c) :
              i < j /\ reqs[i].outcome = "rejected" /\ reqs[j].outcome = "admitted"

\* C3 as stated: at every instant every stored timestamp lies within the
\* trailing window of the current time, also when only the clock has moved.
C3_StoredWithinWindowOfNow ==
    \A c \in DOMAIN rate_limit_store :
        \A i \in DOMAIN rate_limit_store[c] :
            now - rate_limit_store[c][i] < RATE_LIMIT_WINDOW

\* time of the most recent admission check of client c
LastCheck(c) ==
    LET S == ChecksOf(c)
    IN  reqs[CHOOSE i \in S : \A k \in S : k <= i].time

\* C3 as amended: every stored timestamp of a client lies within the window
\* that trails the client's most recent admission check (entries are pruned
\* by the client's own checks only, not by the passing of time).
C3_StoredWithinWindowOfLastCheck ==
    \A c \in DOMAIN rate_limit_store :
        /\ ChecksOf(c) # {}
        /\ \A i \in DOMAIN rate_limit_store[c] :
              /\ rate_limit_store[c][i] <= LastCheck(c)
              /\ LastCheck(c) - rate_limit_store[c][i] < RATE_LIMIT_WINDOW

\* a stale entry was dropped by a later check of the same client
C3_Witness ==
    \E c \in DOMAIN rate_limit_store :
        \E i, j \in ChecksOf(c) :
            /\ i < j
            /\ reqs[i].outcome = "admitted"
            /\ reqs[j].time - reqs[i].time >= RATE_LIMIT_WINDOW
            /\ j = Len(reqs)
            /\ \A k \in DOMAIN rate_limit_store[c] :
                  rate_limit_store[c][k] # reqs[i].time

\* admitted checks of j's client that precede check j
AdmittedBefore(j) ==
    {i \in ChecksOf(reqs[j].client) : i < j /\ reqs[i].outcome = "admitted"}

\* C4: a check made while a full quota of earlier admitted requests is still
\* inside the window is rejected; a check made when every earlier admitted
\* request is older than the window is admitted.
C4_QuotaPerWindow ==
    \A j \in DOMAIN reqs :
        Limited(reqs[j]) =>
            /\ (Cardinality({i \in AdmittedBefore(j) :
                    reqs[j].time - reqs[i].time < RATE_LIMIT_WINDOW})
                  >= RATE_LIMIT_REQUESTS)
               => reqs[j].outcome = "rejected"
            /\ (\A i \in AdmittedBefore(j) :
                    reqs[j].time - reqs[i].time > RATE_LIMIT_WINDOW)
               => reqs[j].outcome = "admitted"

\* quota admitted, then one rejected inside the window, then one admitted
\* once all of them have left the window
C4_Witness ==
    \E j, k \in DOMAIN reqs :
        /\ j < k /\ Limited(reqs[j]) /\ Limited(reqs[k])
        /\ reqs[j].client = reqs[k].client
        /\ Cardinality(AdmittedBefore(j)) = RATE_LIMIT_REQUESTS
        /\ reqs[j].outcome = "rejected"
        /\ AdmittedBefore(k) = AdmittedBefore(j)
        /\ \A i \in AdmittedBefore(k) :
              reqs[k].time - reqs[i].time > RATE_LIMIT_WINDOW
        /\ reqs[k].outcome = "admitted"

\* ------------------------------------------------------------------------
\* Properties of the deployment lifecycle
\* ------------------------------------------------------------------------
Terminal == {RUNNING, FAILED}

Exists(d) == deployments[d] # NoDoc

\* the run of d has ended, by returning or by raising
Ended(d) == task[d].pc \in {"done", "raised"}

AllowedMoves ==
    { <<PENDING, DEPLOYING>>, <<DEPLOYING, RUNNING>>, <<DEPLOYING, FAILED>> }

\* C5: a deployment's status only moves pending -> deploying -> running or
\* pending -> deploying -> failed; deploying is never skipped and a terminal
\* status never changes, also when a store operation faults.
C5_StatusMoves ==
    [][\A d \in DepIds :
          (Exists(d) /\ deployments'[d] # NoDoc
             /\ deployments'[d].status # deployments[d].status)
          => <<deployments[d].status, deployments'[d].status>> \in AllowedMoves]_vars

\* C6: when a store operation of the try block has faulted, the run ends
\* without raising and leaves the record failed, with completed_at set and an
\* error line appended; never pending or deploying.
C6_FaultContained ==
    \A d \in DepIds :
        (task[d].faulted /\ Ended(d)) =>
            /\ task[d].pc # "raised"
            /\ Exists(d) =>
                  /\ deployments[d].status = FAILED
                  /\ deployments[d].completed_at # None
                  /\ deployments[d].logs[Len(deployments[d].logs)] = ErrorLine

\* C7: in every state of the store, completed_at is set exactly when the
\* status is running or failed.
C7_CompletedIffTerminal ==
    \A d \in DepIds :
        Exists(d) =>
            (deployments[d].completed_at # None
               <=> deployments[d].status \in Terminal)

C7_Witness ==
    \E d \in DepIds :
        /\ Exists(d)
        /\ task[d].pc = "app"
        /\ deployments[d].status = RUNNING
        /\ deployments[d].completed_at # None

\* C8: once completed_at is set, the log sequence of the deployment does not
\* change any more.
C8_NoLogAfterCompletion ==
    [][\A d \in DepIds :
          (Exists(d) /\ deployments[d].completed_at # None
             /\ deployments'[d] # NoDoc)
          => deployments'[d].logs = deployments[d].logs]_vars

\* C9: when a run has ended, its deployment is running or failed and has at
\* least one log line.
C9_EndedIsTerminal ==
    \A d \in DepIds :
        (Ended(d) /\ Exists(d)) =>
            /\ deployments[d].status \in Terminal
            /\ Len(deployments[d].logs) >= 1

\* the run of d takes the step that writes the application status
WritesApp(d, from) ==
    /\ task[d].pc = from
    /\ task'[d].pc = "done"
    /\ apps'[task[d].app_id] # apps[task[d].app_id]

\* C10: whenever a run writes running (failed) to its application, the
\* deployment of that run already has status running (failed).
C10_DeploymentBeforeApp ==
    [][\A d \in DepIds :
          /\ WritesApp(d, "app") =>
                /\ apps'[task[d].app_id].status = RUNNING
                /\ Exists(d) /\ deployments[d].status = RUNNING
          /\ WritesApp(d, "except_app") =>
                /\ apps'[task[d].app_id].status = FAILED
                /\ Exists(d) /\ deployments[d].status = FAILED]_vars

C10_Witness ==
    \E d \in DepIds :
        /\ task[d].pc = "done"
        /\ task[d].faulted
        /\ Exists(d) /\ deployments[d].status = FAILED
        /\ apps[task[d].app_id] # NoDoc
        /\ apps[task[d].app_id].status = FAILED

\* the deployments stored for application a
DeploymentsOf(a) == {d \in DepIds : Exists(d) /\ deployments[d].app_id = a}

\* the create_deployment calls made for application a
TasksOf(a) == {d \in DepIds : task[d].pc # "unused" /\ task[d].app_id = a}

\* C11: when the run of deployment D of application A has ended and no other
\* run or request has touched A, A.status equals D.status.
C11_AppMirrorsDeployment ==
    \A d \in DepIds :
        LET a == task[d].app_id
        IN  (/\ Ended(d) /\ Exists(d)
             /\ apps[a] # NoDoc
             /\ TasksOf(a) = {d}
             /\ appOps = 0)
            => apps[a].status = deployments[d].status

\* the most recently created deployment of application a
Latest(a) ==
    CHOOSE d \in DeploymentsOf(a) :
        \A e \in DeploymentsOf(a) :
            deployments[e].created_at <= deployments[d].created_at

\* C12: when several deployments of one application have been run and all
\* runs have ended, the application's status is the status of the most
\* recently created deployment.
C12_AppMirrorsLatest ==
    \A a \in AppIds :
        (/\ apps[a] # NoDoc
         /\ appOps = 0
         /\ Cardinality(TasksOf(a)) >= 2
         /\ DeploymentsOf(a) = TasksOf(a)
         /\ \A d \in TasksOf(a) : Ended(d))
        => apps[a].status = deployments[Latest(a)].status

\* the document create_deployment inserts and returns
Inserted(d) ==
    /\ deployments[d].status = PENDING
    /\ deployments[d].completed_at = None
    /\ deployments[d].logs = <<"Deployment initiated">>

\* C13: the record is inserted pending with completed_at null, the handler
\* returns it to the caller in that state without changing it after the
\* insert, and the run first changes it only after the handler has returned.
C13_FireAndForget ==
    [][\A d \in DepIds :
          /\ (task[d].pc = "insert" /\ task'[d].pc = "respond")
                => (deployments'[d] # NoDoc /\ Inserted(d)')
          /\ (task[d].pc = "respond" /\ Exists(d))
                => (deployments'[d] = deployments[d] \/ deployments'[d] = NoDoc)
          /\ (task[d].pc = "respond" /\ task'[d].pc # "respond")
                => (/\ task'[d].response = "record"
                    /\ task'[d].pc = "start"
                    /\ (Exists(d) => Inserted(d)))
          /\ (Exists(d) /\ deployments'[d] # NoDoc
                /\ deployments'[d] # deployments[d])
                => task[d].pc \notin {"insert", "respond"}]_vars

\* ------------------------------------------------------------------------
\* Frame of a rejected admission
\* ------------------------------------------------------------------------

\* C20: a rejected admission leaves the rate-limit store (its client keys and
\* every client's timestamp sequence) exactly as it was.
C20_RejectLeavesStore ==
    [][(/\ Len(reqs') = Len(reqs) + 1
        /\ reqs'[Len(reqs')].outcome = "rejected")
       => rate_limit_store' = rate_limit_store]_vars

\* a check was rejected at a time when an earlier rejected check of the same
\* client had already seen the full quota, some time having passed in between
C20_Witness ==
    \E i, j \in DOMAIN reqs :
        /\ i < j
        /\ reqs[i].client = reqs[j].client
        /\ reqs[i].outcome = "admitted"
        /\ reqs[j].outcome = "rejected"
        /\ reqs[j].time > reqs[i].time
        /\ reqs[j].client \in DOMAIN rate_limit_store
        /\ Len(rate_limit_store[reqs[j].client]) = RATE_LIMIT_REQUESTS

\* ------------------------------------------------------------------------
\* Properties of authentication and of the credential store
\* ------------------------------------------------------------------------

\* the text is a token signed by this server that has not expired at time t
SignedAndFresh(text, t) ==
    Len(text) = 4 /\ text[1] = "jwt" /\ text[4] = SECRET_KEY /\ text[3] >= t

\* the users whose key list contains the text
Holders(text) ==
    {u \in UserIds :
        users[u] # NoDoc /\ \E i \in DOMAIN users[u].api_keys :
                                users[u].api_keys[i].key = text}

\* the request in slot s arrives in this step: its credential goes through
\* token verification
Arrives(s) == pend[s] = Idle /\ pend'[s].pc = "auth"

\* the dependency of the request in slot s answers in this step
Answers(s) == pend[s].pc = "auth" /\ pend'[s].pc # "auth"

\* the users the lookup of the request in slot s can find in the current
\* store: the token's subject when the token has verified, the holders of
\* the text as a key otherwise
Found(s) ==
    IF pend[s].decoded
    THEN {u \in UserIds : u = pend[s].cred[2] /\ users[u] # NoDoc}
    ELSE Holders(pend[s].cred)

\* C14: the credential is tried as a session token first, on signature and
\* expiry at that moment, and looked up as an API key only when that
\* verification has failed; the answer is for the request's credential, the
\* resolved user is returned when either mode resolves to an existing
\* (active) user, and the call fails with 401 exactly when neither does.
C14_TokenThenKey ==
    [][\A s \in Slots :
          /\ (Arrives(s) /\ pend'[s].op \in UserOps)
                => (pend'[s].decoded <=> SignedAndFresh(pend'[s].cred, now))
          /\ (Answers(s) /\ pend[s].op \in UserOps)
                => LET R == Found(s)
                   IN  /\ last'.op = pend[s].op /\ last'.cred = pend[s].cred
                       /\ (last'.code = 401) <=> (R = {})
                       /\ (last'.code = 200) => (last'.user \in R)
                       /\ (\E u \in R : users[u].is_active) => (last'.code = 200)]_vars

\* the key fallback resolved a caller
C14_Witness ==
    /\ last.op = "me" /\ last.code = 200
    /\ Len(last.cred) = 1
    /\ tokens # {}

\* C15: in both modes a credential that resolves to an inactive user is
\* refused with 403 (account disabled), not 401, no user is handed to the
\* handler and the request ends there; the account is the one stored when
\* the lookup is answered.
C15_InactiveRefused ==
    [][\A s \in Slots :
          (Answers(s) /\ pend[s].op \in UserOps)
             => ((\E u \in Found(s) : ~users[u].is_active)
                   => /\ last'.code = 403 /\ last'.detail = "disabled"
                      /\ last'.user = NoUser
                      /\ users' = users /\ pend'[s] = Idle)]_vars

\* an API key of a disabled account was refused
C15_Witness ==
    /\ last.op = "me" /\ last.code = 403 /\ last.detail = "disabled"
    /\ Len(last.cred) = 1
    /\ \E u \in Holders(last.cred) : ~users[u].is_active

\* the gate of get_admin_user: a request for an administrator-only operation
\* enters its handler only with a caller that its lookup found active and
\* with the stored role admin; any other caller the lookup found active gets
\* 403 (admin required), and a refusal leaves the store untouched
AdminGate(s) ==
    (Answers(s) /\ pend[s].op \in AdminOps) =>
        /\ (last'.code = 200) =>
              /\ last'.user \in Found(s)
              /\ users[last'.user].is_active
              /\ users[last'.user].role = ADMIN
        /\ (last'.code # 200) => (users' = users /\ pend'[s] = Idle)
        /\ (\E u \in Found(s) : users[u].is_active /\ users[u].role # ADMIN)
              => (last'.code = 403 /\ last'.detail = "admin_required")

\* update_user_admin writes in this step for the request in slot s
AdminWrites(s) ==
    pend[s].op = "admin_update" /\ pend[s].pc = "update" /\ pend'[s].pc # "update"

\* the caller of the request in slot s is stored as an active administrator
CallerIsAdmin(s) ==
    LET c == pend[s].caller
    IN  c \in UserIds /\ users[c] # NoDoc /\ users[c].is_active /\ users[c].role = ADMIN

\* C16: an administrator-only operation is executed only for a caller that
\* authenticated, is active and has the stored role admin: the gate admits
\* no other caller, and the write of update_user_admin is made for a caller
\* that is an active administrator; every other authenticated caller gets
\* 403 (admin required) and the store is untouched.
C16_AdminGate ==
    [][\A s \in Slots :
          /\ AdminGate(s)
          /\ AdminWrites(s) => CallerIsAdmin(s)]_vars

\* C17: a raw API key never verifies as a session token, and authenticates
\* only as a user whose key list holds that exact string, never as another
\* user, whatever tokens and keys exist.
C17_KeyResolvesToOwner ==
    [][\A s \in Slots :
          /\ (Arrives(s) /\ pend'[s].cred \in issued.keys) => ~pend'[s].decoded
          /\ (Answers(s) /\ pend[s].op \in UserOps /\ pend[s].cred \in issued.keys)
                => LET H == Holders(pend[s].cred)
                   IN  /\ (last'.code = 200) => (last'.user \in H)
                       /\ (H = {}) => (last'.code = 401)
                       /\ (\E u \in H : users[u].is_active)
                             => (last'.code = 200 /\ last'.cred = pend[s].cred)]_vars

\* two users hold keys and one of them authenticated with its own
C17_Witness ==
    /\ \A u \in UserIds : users[u] # NoDoc /\ users[u].api_keys # << >>
    /\ last.op = "me" /\ last.code = 200
    /\ last.cred \in issued.keys
    /\ last.user # AdminId
    /\ last.cred \in {users[last.user].api_keys[i].key :
                         i \in DOMAIN users[last.user].api_keys}

\* C18 as stated: the outcome for an unexpired, correctly signed token is the
\* same whatever the store holds (here: the store before and after a step).
C18_TokenOutcomeIgnoresStore ==
    [][\A text \in tokens :
          (SignedAndFresh(text, now) /\ now' = now)
             => get_current_user(text, users', now').code
                  = get_current_user(text, users, now).code]_vars

\* C18 as amended: token verification depends on the signature and on the
\* expiry at the moment of verification only (a token that fails it never
\* authenticates), and for a token that has passed it the outcome is decided
\* by one read of the subject's document, as stored when the read is
\* answered.
C18_TokenOutcomeBySubject ==
    [][\A s \in Slots :
          /\ (Arrives(s) /\ Len(pend'[s].cred) = 4)
                => (pend'[s].decoded <=> SignedAndFresh(pend'[s].cred, now))
          /\ (Answers(s) /\ pend[s].op \in UserOps /\ Len(pend[s].cred) = 4)
                => LET sub == pend[s].cred[2]
                   IN  IF pend[s].decoded
                       THEN /\ (users[sub] = NoDoc) => last'.code = 401
                            /\ (users[sub] # NoDoc /\ ~users[sub].is_active)
                                  => (last'.code = 403 /\ last'.detail = "disabled")
                            /\ (users[sub] # NoDoc /\ users[sub].is_active)
                                  => (last'.code = 200 /\ last'.user = sub)
                       ELSE last'.code = 401]_vars

\* a token that verified before its expiry was answered after it, by the
\* record of its subject: 403 for the account disabled in the meantime
C18_Witness ==
    /\ last.op = "me" /\ last.code = 403 /\ last.detail = "disabled"
    /\ last.cred \in tokens
    /\ ~SignedAndFresh(last.cred, now)
    /\ users[last.cred[2]] # NoDoc /\ ~users[last.cred[2]].is_active

\* C19: no two users share a username and no two share an email.
C19_UniqueNames ==
    \A u, v \in UserIds :
        (u # v /\ users[u] # NoDoc /\ users[v] # NoDoc) =>
            /\ users[u].username # users[v].username
            /\ users[u].email # users[v].email

\* a request that passed its own check is about to write a username that
\* another request has stored in the meantime
C19_Witness ==
    \E s \in Slots, v \in UserIds :
        /\ pend[s].op \in {"signup", "update_profile"}
        /\ pend[s].pc \in {"insert", "update"}
        /\ users[v] # NoDoc
        /\ pend[s].user # v
        /\ users[v].username = pend[s].username

\* ------------------------------------------------------------------------
\* The log sequence of a deployment
\* ------------------------------------------------------------------------

\* s is a prefix of t
IsPrefix(s, t) == Len(s) <= Len(t) /\ SubSeq(t, 1, Len(s)) = s

\* C21: every write of the run to a deployment's logs is an append: the log
\* sequence before the write is a prefix of the one after it, so the line
\* written at creation is retained.
C21_LogsAppendOnly ==
    [][\A d \in DepIds :
          (Exists(d) /\ deployments'[d] # NoDoc)
             => IsPrefix(deployments[d].logs, deployments'[d].logs)]_vars

\* ------------------------------------------------------------------------
\* The boundary of the window
\* ------------------------------------------------------------------------

\* the entries the claim keeps: timestamp >= now - window_seconds
KeptInclusive(seq, current_time, w) ==
    SelectSeq(seq, LAMBDA req_time : req_time >= current_time - w)

\* the pruned sequence the check of this step counted
CountedBy(c) ==
    LET after == rate_limit_store'[c]
    IN  IF reqs'[Len(reqs')].outcome = "admitted"
        THEN SubSeq(after, 1, Len(after) - 1)
        ELSE after

\* C22: an admission check at time now drops exactly the entries older than
\* now - window_seconds and keeps those with timestamp >= now - window_seconds
\* (an entry aged exactly the window still counts).
C22_PruneKeepsBoundary ==
    [][(Len(reqs') = Len(reqs) + 1 /\ Limited(reqs'[Len(reqs')]))
         => LET c == reqs'[Len(reqs')].client
            IN  CountedBy(c) =
                  KeptInclusive(StoredFor(rate_limit_store, c), now, RATE_LIMIT_WINDOW)]_vars

\* ------------------------------------------------------------------------
\* Scheduling of the run
\* ------------------------------------------------------------------------

\* create_deployment has persisted the record of d
Persisted(d) == task[d].pc \notin {"unused", "insert"}

\* the run is scheduled once for every persisted record and started at most
\* once; a run that has ended was started
RunOncePerRecord ==
    \A d \in DepIds :
        /\ Persisted(d) => task[d].scheduled = 1
        /\ ~Persisted(d) => task[d].scheduled = 0
        /\ task[d].started <= 1
        /\ (task[d].pc \in {"unused", "insert", "respond", "dropped", "start"})
              <=> (task[d].started = 0)

\* the run create_deployment scheduled for d was discarded with the failed
\* response: the framework never starts it
Dropped(d) == task[d].response = "error"

\* C23: for every persisted deployment the run is scheduled and started
\* exactly once: the scheduled run is never discarded unstarted, is started
\* at most once, and no persisted deployment is left pending by its run.
C23_RunOnceAndLeavesPending ==
    /\ RunOncePerRecord
    /\ \A d \in DepIds : ~Dropped(d)
    /\ \A d \in DepIds : (Ended(d) /\ Exists(d)) => deployments[d].status # PENDING

\* ------------------------------------------------------------------------
\* Revocation of API keys
\* ------------------------------------------------------------------------

\* the key strings of u's entries with this id
KeysWithId(u, key_id) ==
    IF users[u] = NoDoc
    THEN {}
    ELSE {users[u].api_keys[i].key :
            i \in {j \in DOMAIN users[u].api_keys : users[u].api_keys[j].id = key_id}}

\* a key string that was handed out and is in no user's key list any more
Revoked(k) == k \in issued.keys /\ Holders(k) = {}

\* C24: once delete_api_key has removed a key from its owner's list, every
\* later authentication with that key string fails with 401, while every
\* other key and every session token authenticates as before the removal.
C24_RevokedKeyRefused ==
    [][/\ \A s \in Slots :
            (pend[s].op = "delete_api_key" /\ pend[s].pc = "pull" /\ pend'[s] = Idle) =>
               LET gone == KeysWithId(pend[s].user, pend[s].arg)
               IN  /\ \A k \in gone :
                         get_current_user(k, users', now) = Unauthenticated
                   /\ \A t \in Presentable \ gone :
                         get_current_user(t, users', now) = get_current_user(t, users, now)
                   /\ (gone # {}) <=> (last'.code = 200)
       /\ \A k \in issued.keys :
            Revoked(k) => get_current_user(k, users', now) = Unauthenticated
       /\ \A s \in Slots :
            (Answers(s) /\ pend[s].op = "me" /\ Revoked(pend[s].cred))
               => /\ last'.op = "me" /\ last'.cred = pend[s].cred
                  /\ last'.code = 401 /\ last'.user = NoUser]_vars

\* a removed key was refused while its former owner still holds another key
\* that was issued together with a session token
C24_Witness ==
    /\ last.op = "me" /\ last.code = 401
    /\ Revoked(last.cred)
    /\ \E k \in issued.keys : Holders(k) # {}
    /\ tokens # {}

\* ------------------------------------------------------------------------
\* Frame of the run
\* ------------------------------------------------------------------------

\* the run of d takes a step
RunStep(d) ==
    /\ task[d].pc \in {"start", "logs", "terminal", "app", "except", "except_app"}
    /\ task'[d].pc # task[d].pc

\* a step of the run of d writes no record but its own deployment and its
\* own application, and creates neither
RunFrame(d) ==
    /\ \A e \in DepIds \ {d} : deployments'[e] = deployments[e]
    /\ \A a \in AppIds \ {task[d].app_id} : apps'[a] = apps[a]
    /\ deployments[d] = NoDoc => deployments'[d] = NoDoc
    /\ apps[task[d].app_id] = NoDoc => apps'[task[d].app_id] = NoDoc

\* after the run of a deployment whose application was deleted, neither the
\* deployment nor the application is in the store
NoRecordLeft ==
    \A d \in DepIds :
        (Ended(d) /\ deleting[task[d].app_id] = "done")
           => (deployments[d] = NoDoc /\ apps[task[d].app_id] = NoDoc)

\* C25: the run never creates or resurrects a record and changes no record
\* other than its own deployment and application; when the deployment or its
\* application has been deleted, the store holds no deployment with that id
\* and no application with that app id after the run.
C25_RunLeavesNoRecord ==
    [][/\ \A d \in DepIds : RunStep(d) => RunFrame(d)
       /\ NoRecordLeft']_vars

\* the frame of the run alone
RunFrameHolds == [][\A d \in DepIds : RunStep(d) => RunFrame(d)]_vars

\* ------------------------------------------------------------------------
\* The application limit
\* ------------------------------------------------------------------------

\* C26: no user ever owns more than MAX_APPS_PER_USER applications, also
\* when create_app requests of one user are handled side by side.
C26_AppLimit ==
    \A u \in Users : CountApps(apps, u) <= MAX_APPS_PER_USER

====
